---- MODULE Spec2Model ----
(***************************************************************************)
(* gh-notifications (main.go): the list and unsubscribe commands, the      *)
(* filter pipeline forEachNotifications and the subject state resolver.    *)
(* The remote notification service is the environment: each remote call    *)
(* may fail, and a detail fetch returns whatever the detail resource       *)
(* holds at that moment.                                                   *)
(***************************************************************************)
EXTENDS Integers, Sequences, FiniteSets

VARIABLES
    cmd,            \* the subcommand cobra dispatches to: "list" | "unsubscribe"
    filters,        \* the package-level Filters struct, set from the flags
    threads,        \* remote notification threads; a thread's id is its index
    remoteRead,     \* remote: thread id -> the thread is marked read
    remoteSub,      \* remote: thread id -> the thread subscription exists
    notifications,  \* the listing ListNotifications returned (a snapshot)
    idx,            \* position of the range loop in the listing (1-based)
    pc,             \* where the process is
    err,            \* the error forEachNotifications returns ("" = nil)
    errPos,         \* history: the listing position the error arose at
    calls,          \* history: every remote call issued, in order
    invoked,        \* history: listing positions `do` was invoked on, in order
    output,         \* lines written to standard output, in order
    exitStatus      \* process exit status; -1 while the process runs

vars == <<cmd, filters, threads, remoteRead, remoteSub, notifications, idx, pc,
          err, errPos, calls, invoked, output, exitStatus>>

\* Number of notification threads the remote service holds for the user.
NumThreads == 2

SubjectTypes == {"PullRequest", "Issue", "Commit"}
Repositories == {"a/b", "c/d"}
RepositoryFilters == {"", "a/b"}
StateFilters == {"", "open", "closed", "merged"}
LifecycleStates == {"open", "closed"}

\* What a detail resource can hold: github.PullRequest has State and Merged,
\* github.Issue has State only (GetMerged does not exist on it).
PullRequestDetails == [state : LifecycleStates, merged : BOOLEAN]
IssueDetails == [state : LifecycleStates, merged : {FALSE}]

ThreadRecords == [type : SubjectTypes, repo : Repositories, unread : BOOLEAN]

\* The Filters values the two subcommands' flag sets can produce: --show-read
\* exists on list only, --unread on unsubscribe only.
FilterConfigs ==
    { f \in [repository : RepositoryFilters, subjectType : SubjectTypes,
             subjectState : StateFilters, listRead : BOOLEAN,
             unsubscribeUnread : BOOLEAN, cmd : {"list", "unsubscribe"}] :
        /\ f.cmd = "list" => ~f.unsubscribeUnread
        /\ f.cmd = "unsubscribe" => ~f.listRead }

NoCall == [op |-> "none", pos |-> 0, ok |-> TRUE, by |-> "", state |-> "",
           merged |-> FALSE, read |-> FALSE]

Init ==
    /\ \E f \in FilterConfigs :
          /\ cmd = f.cmd
          /\ filters = [repository |-> f.repository, subjectType |-> f.subjectType,
                        subjectState |-> f.subjectState, listRead |-> f.listRead,
                        unsubscribeUnread |-> f.unsubscribeUnread]
    /\ threads \in [1..NumThreads -> ThreadRecords]
    /\ remoteRead = [i \in 1..NumThreads |-> ~threads[i].unread]
    /\ remoteSub = [i \in 1..NumThreads |-> TRUE]
    /\ notifications = <<>>
    /\ idx = 0
    /\ pc = "start"
    /\ err = ""
    /\ errPos = 0
    /\ calls = <<>>
    /\ invoked = <<>>
    /\ output = <<>>
    /\ exitStatus = -1

----------------------------------------------------------------------------
(* Pure helpers *)

\* NotificationListOptions.All: runList passes filters.listRead, runUnsubscribe true.
ListOptsAll(c) == IF c = "list" THEN filters.listRead ELSE TRUE

\* The closure each command hands to forEachNotifications.
ActionOfAlwaysUnsubscribe(c) == "unsubscribe"
ActionOf(c) == IF c = "list" THEN "print" ELSE "unsubscribe"

\* The listing the service returns: every thread when all, else the unread ones,
\* in server order.
RECURSIVE ListingFrom(_, _)
ListingFrom(i, all) ==
    IF i > NumThreads THEN <<>>
    ELSE (IF all \/ ~remoteRead[i]
            THEN <<[id |-> i, type |-> threads[i].type, repo |-> threads[i].repo,
                    unread |-> ~remoteRead[i]]>>
            ELSE <<>>) \o ListingFrom(i + 1, all)

TypeMatches(n) == filters.subjectType = n.type

RepoMatchesAny(n) == TRUE
RepoMatches(n) == filters.repository = "" \/ filters.repository = n.repo

StateFilterSet == filters.subjectState # ""

StateMatches(state) == state = filters.subjectState

\* pr.GetState(), overridden by "merged" when pr.GetMerged().
PullRequestStateNoOverride(d) == d.state
PullRequestState(d) == IF d.merged THEN "merged" ELSE d.state

IssueState(d) == d.state

\* The outcomes resolveNotificationSubjectState can have on notification n:
\* fetched says whether getObject was called, ok whether it succeeded.
ResolveOutcomesDefaultAsIssue(n) ==
    IF n.type = "PullRequest"
    THEN {[err |-> "detail", fetched |-> TRUE, ok |-> FALSE, state |-> "",
           detail |-> [state |-> "", merged |-> FALSE]]}
         \cup {[err |-> "", fetched |-> TRUE, ok |-> TRUE,
                state |-> PullRequestState(d), detail |-> d] : d \in PullRequestDetails}
    ELSE {[err |-> "detail", fetched |-> TRUE, ok |-> FALSE, state |-> "",
           detail |-> [state |-> "", merged |-> FALSE]]}
         \cup {[err |-> "", fetched |-> TRUE, ok |-> TRUE,
                state |-> IssueState(d), detail |-> d] : d \in IssueDetails}
ResolveOutcomes(n) ==
    IF n.type = "PullRequest"
    THEN {[err |-> "detail", fetched |-> TRUE, ok |-> FALSE, state |-> "",
           detail |-> [state |-> "", merged |-> FALSE]]}
         \cup {[err |-> "", fetched |-> TRUE, ok |-> TRUE,
                state |-> PullRequestState(d), detail |-> d] : d \in PullRequestDetails}
    ELSE IF n.type = "Issue"
    THEN {[err |-> "detail", fetched |-> TRUE, ok |-> FALSE, state |-> "",
           detail |-> [state |-> "", merged |-> FALSE]]}
         \cup {[err |-> "", fetched |-> TRUE, ok |-> TRUE,
                state |-> IssueState(d), detail |-> d] : d \in IssueDetails}
    ELSE {[err |-> "unsupported", fetched |-> FALSE, ok |-> FALSE, state |-> "",
           detail |-> [state |-> "", merged |-> FALSE]]}

\* The remote calls one resolver outcome adds to the log.
ResolveCalls(o, pos, by) ==
    IF o.fetched
    THEN <<[op |-> "getObject", pos |-> pos, ok |-> o.ok, by |-> by,
            state |-> o.detail.state, merged |-> o.detail.merged, read |-> FALSE]>>
    ELSE <<>>

\* printNotification resolves the state itself only when no state filter is set.
PrintResolvesAlways == TRUE
PrintResolves == filters.subjectState = ""

\* unsubscribe returns nil at once for an unread notification without --unread.
SkipsUnreadNever(n) == FALSE
SkipsUnreadIgnoringFlag(n) == n.unread
SkipsUnread(n) == n.unread /\ ~filters.unsubscribeUnread

\* unsubscribe marks the thread read first when the notification is unread.
MarkReadNeededNever(n) == FALSE
MarkReadNeeded(n) == n.unread

----------------------------------------------------------------------------
(* Control transfers of the range loop *)

Continue == idx' = idx + 1 /\ pc' = "loop" /\ UNCHANGED <<err, errPos>>

\* `return err`: the pass ends with this error.
AbortSkipsToNext(e) == err' = e /\ errPos' = idx /\ idx' = idx + 1 /\ pc' = "loop"
Abort(e) == err' = e /\ errPos' = idx /\ idx' = idx /\ pc' = "report"

Invoke == invoked' = Append(invoked, idx) /\ pc' = "do" /\ UNCHANGED <<idx, err, errPos>>

Current == notifications[idx]

InLoop == pc = "loop" /\ idx <= Len(notifications)

----------------------------------------------------------------------------
(* Actions *)

\* mustGHClient: without GITHUB_TOKEN the process prints a hint and exits 1.
MustGHClient ==
    /\ pc = "start"
    /\ \E token \in BOOLEAN :
          IF token
          THEN pc' = "list" /\ UNCHANGED <<output, exitStatus>>
          ELSE /\ pc' = "exited"
               /\ exitStatus' = 1
               /\ output' = Append(output, [kind |-> "token", pos |-> 0, state |-> ""])
    /\ UNCHANGED <<cmd, filters, threads, remoteRead, remoteSub, notifications,
                   idx, err, errPos, calls, invoked>>

\* forEachNotifications, the listing fetch.
ListNotifications ==
    /\ pc = "list"
    /\ \E ok \in BOOLEAN :
          /\ calls' = Append(calls, [NoCall EXCEPT !.op = "list", !.ok = ok])
          /\ IF ok
             THEN /\ notifications' = ListingFrom(1, ListOptsAll(cmd))
                  /\ idx' = 1
                  /\ pc' = "loop"
                  /\ UNCHANGED <<err, errPos>>
             ELSE /\ err' = "list"
                  /\ pc' = "report"
                  /\ UNCHANGED <<notifications, idx, errPos>>
    /\ UNCHANGED <<cmd, filters, threads, remoteRead, remoteSub, invoked, output,
                   exitStatus>>

\* The loop ran off the end of the listing: return nil.
LoopEnd ==
    /\ pc = "loop"
    /\ idx > Len(notifications)
    /\ pc' = "report"
    /\ UNCHANGED <<cmd, filters, threads, remoteRead, remoteSub, notifications,
                   idx, err, errPos, calls, invoked, output, exitStatus>>

\* The subject-type or the repository filter rejects the notification.
FilterReject ==
    /\ InLoop
    /\ ~(TypeMatches(Current) /\ RepoMatches(Current))
    /\ Continue
    /\ UNCHANGED <<cmd, filters, threads, remoteRead, remoteSub, notifications,
                   calls, invoked, output, exitStatus>>

\* A state filter is set: resolve the state, then reject, abort or call do.
FilterState ==
    /\ InLoop
    /\ TypeMatches(Current) /\ RepoMatches(Current)
    /\ StateFilterSet
    /\ \E o \in ResolveOutcomes(Current) :
          /\ calls' = calls \o ResolveCalls(o, idx, "pipeline")
          /\ IF o.err # ""
             THEN Abort(o.err) /\ UNCHANGED invoked
             ELSE IF ~StateMatches(o.state)
                  THEN Continue /\ UNCHANGED invoked
                  ELSE Invoke
    /\ UNCHANGED <<cmd, filters, threads, remoteRead, remoteSub, notifications,
                   output, exitStatus>>

\* No state filter: do is called right after the structural filters.
FilterPass ==
    /\ InLoop
    /\ TypeMatches(Current) /\ RepoMatches(Current)
    /\ ~StateFilterSet
    /\ Invoke
    /\ UNCHANGED <<cmd, filters, threads, remoteRead, remoteSub, notifications,
                   calls, output, exitStatus>>

\* runList's closure.
PrintNotification ==
    /\ pc = "do"
    /\ ActionOf(cmd) = "print"
    /\ IF PrintResolves
       THEN \E o \in ResolveOutcomes(Current) :
               /\ calls' = calls \o ResolveCalls(o, idx, "action")
               /\ IF o.err # ""
                  THEN Abort(o.err) /\ UNCHANGED output
                  ELSE /\ output' = Append(output, [kind |-> "line", pos |-> idx,
                                                    state |-> o.state])
                       /\ Continue
       ELSE /\ output' = Append(output, [kind |-> "line", pos |-> idx,
                                         state |-> filters.subjectState])
            /\ Continue
            /\ UNCHANGED calls
    /\ UNCHANGED <<cmd, filters, threads, remoteRead, remoteSub, notifications,
                   invoked, exitStatus>>

\* runUnsubscribe's closure, the silent skip of an unread notification.
UnsubscribeSkip ==
    /\ pc = "do"
    /\ ActionOf(cmd) = "unsubscribe"
    /\ SkipsUnread(Current)
    /\ Continue
    /\ UNCHANGED <<cmd, filters, threads, remoteRead, remoteSub, notifications,
                   calls, invoked, output, exitStatus>>

\* runUnsubscribe's closure, gh.Activity.MarkThreadRead.
MarkThreadRead ==
    /\ pc = "do"
    /\ ActionOf(cmd) = "unsubscribe"
    /\ ~SkipsUnread(Current)
    /\ MarkReadNeeded(Current)
    /\ \E ok \in BOOLEAN :
          /\ calls' = Append(calls, [NoCall EXCEPT !.op = "markThreadRead",
                                       !.pos = idx, !.ok = ok, !.by = "action"])
          /\ IF ok
             THEN /\ remoteRead' = [remoteRead EXCEPT ![Current.id] = TRUE]
                  /\ pc' = "delete"
                  /\ UNCHANGED <<idx, err, errPos>>
             ELSE Abort("markread") /\ UNCHANGED remoteRead
    /\ UNCHANGED <<cmd, filters, threads, remoteSub, notifications, invoked,
                   output, exitStatus>>

\* runUnsubscribe's closure, gh.Activity.DeleteThreadSubscription and the
\* confirmation line.
DeleteThreadSubscription ==
    /\ ActionOf(cmd) = "unsubscribe"
    /\ \/ pc = "delete"
       \/ pc = "do" /\ ~SkipsUnread(Current) /\ ~MarkReadNeeded(Current)
    /\ \E ok \in BOOLEAN :
          /\ calls' = Append(calls, [NoCall EXCEPT !.op = "deleteThreadSubscription",
                                       !.pos = idx, !.ok = ok, !.by = "action",
                                       !.read = remoteRead[Current.id]])
          /\ IF ok
             THEN /\ remoteSub' = [remoteSub EXCEPT ![Current.id] = FALSE]
                  /\ output' = Append(output, [kind |-> "confirm", pos |-> idx,
                                               state |-> ""])
                  /\ Continue
             ELSE Abort("unsubscribe") /\ UNCHANGED <<remoteSub, output>>
    /\ UNCHANGED <<cmd, filters, threads, remoteRead, notifications, invoked,
                   exitStatus>>

\* runList / runUnsubscribe after forEachNotifications returned: the error, if
\* any, is printed; the handler then returns normally.
RunReturn ==
    /\ pc = "report"
    /\ output' = IF err # ""
                 THEN Append(output, [kind |-> "failed", pos |-> 0, state |-> err])
                 ELSE output
    /\ pc' = "main"
    /\ UNCHANGED <<cmd, filters, threads, remoteRead, remoteSub, notifications,
                   idx, err, errPos, calls, invoked, exitStatus>>

\* What rootCommand.Execute() returns to main: the handlers are cobra Run
\* functions (no error result), so Execute's error is nil whatever they did.
ExecuteError == FALSE

\* main: exit 1 only when Execute returned an error.
MainExit ==
    /\ pc = "main"
    /\ exitStatus' = IF ExecuteError THEN 1 ELSE 0
    /\ pc' = "exited"
    /\ UNCHANGED <<cmd, filters, threads, remoteRead, remoteSub, notifications,
                   idx, err, errPos, calls, invoked, output>>

Next ==
    \/ MustGHClient
    \/ ListNotifications
    \/ LoopEnd
    \/ FilterReject
    \/ FilterState
    \/ FilterPass
    \/ PrintNotification
    \/ UnsubscribeSkip
    \/ MarkThreadRead
    \/ DeleteThreadSubscription
    \/ RunReturn
    \/ MainExit

Spec == Init /\ [][Next]_vars

----------------------------------------------------------------------------
(* Vocabulary of the properties *)

InvokedSet == {invoked[k] : k \in 1..Len(invoked)}

CallsAt(p, op) == {k \in 1..Len(calls) : calls[k].op = op /\ calls[k].pos = p}

OutputAt(p) == {k \in 1..Len(output) : output[k].pos = p}

\* forEachNotifications has returned (the listing fetch was at least attempted).
PipelineOver == pc \in {"report", "main", "exited"} /\ Len(calls) > 0

\* The loop is past listing position p, or the pass is over.
Processed(p) == idx > p \/ PipelineOver

InitialRemoteRead == [i \in 1..NumThreads |-> ~threads[i].unread]

----------------------------------------------------------------------------
(* Properties *)

\* C1: the action is invoked at most once per notification, in listing order,
\* and only on notifications whose subject type equals the type filter, whose
\* repository passes the repository filter, and whose resolved state (the
\* detail's state, "merged" for a merged pull request) equals the state filter
\* when one is set.
C1_ActionOnlyOnFilteredInOrder ==
    /\ \A k \in 1..(Len(invoked) - 1) : invoked[k] < invoked[k + 1]
    /\ \A p \in InvokedSet :
          /\ p \in 1..Len(notifications)
          /\ notifications[p].type = filters.subjectType
          /\ filters.repository \in {"", notifications[p].repo}
          /\ filters.subjectState # "" =>
                \E k \in CallsAt(p, "getObject") :
                   /\ calls[k].ok
                   /\ calls[k].by = "pipeline"
                   /\ filters.subjectState =
                         (IF notifications[p].type = "PullRequest" /\ calls[k].merged
                          THEN "merged" ELSE calls[k].state)

C1_Witness ==
    /\ pc = "exited"
    /\ filters.repository # ""
    /\ filters.subjectState # ""
    /\ Len(notifications) = NumThreads
    /\ invoked = <<NumThreads>>
    /\ notifications[1].repo # filters.repository

\* C2: once the resolver or the action has failed at listing position i, the
\* pass is over with that error: it is the only failed call of the run, and no
\* remote call and no action invocation exists for a position after i.
C2_FailFast ==
    /\ (\E k \in 1..Len(calls) : ~calls[k].ok) => err # ""
    /\ err \notin {"", "list"} =>
          /\ pc \in {"report", "main", "exited"}
          /\ idx = errPos
          /\ \A k \in 1..Len(calls) : calls[k].pos <= errPos
          /\ \A p \in InvokedSet : p <= errPos
          /\ \A k \in 1..Len(calls) :
                ~calls[k].ok =>
                   /\ k = Len(calls)
                   /\ calls[k].pos = errPos
                   /\ err = (CASE calls[k].op = "getObject" -> "detail"
                               [] calls[k].op = "markThreadRead" -> "markread"
                               [] calls[k].op = "deleteThreadSubscription" -> "unsubscribe"
                               [] OTHER -> "list")

C2_Witness ==
    /\ pc = "exited"
    /\ err = "detail"
    /\ errPos = 1
    /\ Len(notifications) = NumThreads
    /\ \A p \in 2..NumThreads :
          notifications[p].type = filters.subjectType /\ ~(p \in InvokedSet)

\* The unsubscribe action has finished on an unread notification at p with
\* the unsubscribe-unread flag set.
ForcedUnreadDone(p) ==
    /\ cmd = "unsubscribe"
    /\ p \in InvokedSet
    /\ notifications[p].unread
    /\ filters.unsubscribeUnread
    /\ Processed(p)

\* C3 as stated: exactly one markThreadRead call, directly followed by exactly
\* one deleteThreadSubscription call, for that thread.
C3_MarkThenDeleteAlways ==
    \A p \in 1..Len(notifications) :
       ForcedUnreadDone(p) =>
          \E m \in 1..Len(calls) :
             /\ CallsAt(p, "markThreadRead") = {m}
             /\ CallsAt(p, "deleteThreadSubscription") = {m + 1}

\* C3 (amended): exactly one markThreadRead call for that thread; when it
\* succeeds it is directly followed by exactly one deleteThreadSubscription
\* call, and when it fails no deleteThreadSubscription call is made.
C3_MarkThenDeleteIfMarked ==
    \A p \in 1..Len(notifications) :
       ForcedUnreadDone(p) =>
          \E m \in 1..Len(calls) :
             /\ CallsAt(p, "markThreadRead") = {m}
             /\ CallsAt(p, "deleteThreadSubscription") =
                   (IF calls[m].ok THEN {m + 1} ELSE {})

C3_Witness ==
    /\ ForcedUnreadDone(1)
    /\ \E m \in CallsAt(1, "markThreadRead") :
          calls[m].ok /\ (m + 1) \in CallsAt(1, "deleteThreadSubscription")
    /\ pc = "exited"

\* An unread notification at p in an unsubscribe run without the
\* unsubscribe-unread flag, which the pass has gone past.
UnforcedUnreadProcessed(p) ==
    /\ cmd = "unsubscribe"
    /\ notifications[p].unread
    /\ ~filters.unsubscribeUnread
    /\ Processed(p)

\* C4 as stated: zero remote calls of any kind for that notification, no
\* output line, and the pass goes on without an error from it.
C4_NoRemoteCallAtAll ==
    \A p \in 1..Len(notifications) :
       UnforcedUnreadProcessed(p) =>
          /\ \A k \in 1..Len(calls) : calls[k].pos # p
          /\ OutputAt(p) = {}
          /\ p \in InvokedSet => (idx > p /\ errPos # p)

\* C4 (amended): no markThreadRead and no deleteThreadSubscription call and no
\* output line for that notification; the only remote call it can cause is the
\* pipeline's single detail fetch, made when a state filter is set and the type
\* and repository filters pass; when the action is invoked on it the action
\* returns no error and the loop moves on.
C4_NoMutationNoOutput ==
    \A p \in 1..Len(notifications) :
       UnforcedUnreadProcessed(p) =>
          /\ CallsAt(p, "markThreadRead") = {}
          /\ CallsAt(p, "deleteThreadSubscription") = {}
          /\ OutputAt(p) = {}
          /\ Cardinality(CallsAt(p, "getObject")) <= 1
          /\ \A k \in CallsAt(p, "getObject") :
                /\ filters.subjectState # ""
                /\ calls[k].by = "pipeline"
                /\ notifications[p].type = filters.subjectType
                /\ filters.repository \in {"", notifications[p].repo}
          /\ p \in InvokedSet => (idx > p /\ errPos # p)

C4_Witness ==
    /\ Len(notifications) = NumThreads
    /\ UnforcedUnreadProcessed(1)
    /\ 1 \in InvokedSet
    /\ CallsAt(1, "getObject") # {}
    /\ NumThreads \in InvokedSet
    /\ err = ""
    /\ pc = "exited"

Supported == {"PullRequest", "Issue"}

\* C5 as stated: a listing that holds a notification of an unsupported subject
\* type, with a state filter set, ends in the unsupported-subject-type error
\* with no action run.
C5_UnsupportedAlwaysAborts ==
    ( /\ PipelineOver
      /\ err # "list"
      /\ filters.subjectState # ""
      /\ \E p \in 1..Len(notifications) : notifications[p].type \notin Supported )
    => (err = "unsupported" /\ invoked = <<>>)

\* The first listing position the subject-type and repository filters let through.
FirstStructuralPass ==
    LET S == {p \in 1..Len(notifications) :
                 /\ notifications[p].type = filters.subjectType
                 /\ filters.repository \in {"", notifications[p].repo}}
    IN IF S = {} THEN 0 ELSE CHOOSE p \in S : \A q \in S : p <= q

\* C5 (amended): when a state filter is set, the subject-type filter names a
\* type that is neither PullRequest nor Issue, and the listing holds a
\* notification of that type that passes the repository filter, the pass ends
\* in the unsupported-subject-type error at the first such notification, with
\* no action run and no detail fetch made.
C5_UnsupportedSelectedAborts ==
    ( /\ PipelineOver
      /\ err # "list"
      /\ filters.subjectState # ""
      /\ filters.subjectType \notin Supported
      /\ FirstStructuralPass # 0 )
    => /\ err = "unsupported"
       /\ errPos = FirstStructuralPass
       /\ invoked = <<>>
       /\ \A k \in 1..Len(calls) : calls[k].op = "list"

C5_Witness ==
    /\ pc = "exited"
    /\ filters.subjectState # ""
    /\ filters.subjectType \notin Supported
    /\ FirstStructuralPass = NumThreads
    /\ err = "unsupported"

\* C6: once the process has exited after a pipeline pass, the exit status is
\* non-zero and the error was printed if the pass ended with an error, and the
\* exit status is zero if it ended without one.
C6_ExitStatusReflectsError ==
    (pc = "exited" /\ Len(calls) > 0) =>
       /\ err # "" => (exitStatus # 0 /\ \E k \in 1..Len(output) : output[k].kind = "failed")
       /\ err = "" => exitStatus = 0

\* C7: with a state filter F set, a pull-request notification whose fetched
\* detail has the merged flag true passes the state filter (the action is
\* invoked on it) if and only if F = "merged"; so never when F = "closed".
C7_MergedPassesIffMergedFilter ==
    filters.subjectState # "" =>
       \A k \in 1..Len(calls) :
          ( /\ calls[k].op = "getObject"
            /\ calls[k].ok
            /\ calls[k].merged
            /\ notifications[calls[k].pos].type = "PullRequest" )
          => (calls[k].pos \in InvokedSet <=> filters.subjectState = "merged")

C7_Witness ==
    /\ filters.subjectState = "merged"
    /\ \E k \in 1..Len(calls) :
          /\ calls[k].op = "getObject"
          /\ calls[k].ok
          /\ calls[k].merged
          /\ calls[k].state = "closed"
          /\ calls[k].pos \in InvokedSet
    /\ pc = "exited"

\* C8: a list run issues no markThreadRead and no deleteThreadSubscription
\* call, and every thread's read flag and subscription stay as they were.
C8_ListNeverMutates ==
    cmd = "list" =>
       /\ \A k \in 1..Len(calls) : calls[k].op \in {"list", "getObject"}
       /\ remoteRead = InitialRemoteRead
       /\ \A i \in 1..NumThreads : remoteSub[i]

C8_Witness ==
    /\ cmd = "list"
    /\ pc = "exited"
    /\ Len(invoked) = NumThreads
    /\ \E i \in 1..NumThreads : remoteRead[i]
    /\ \E i \in 1..NumThreads : ~remoteRead[i]
    /\ \E k \in 1..Len(output) : output[k].kind = "line"

\* C9: in a list run every notification causes at most one detail fetch, made
\* by the pipeline exactly when a state filter is set and by the print action
\* otherwise, and none is made for a notification the subject-type or the
\* repository filter rejects.
C9_AtMostOneFetch ==
    cmd = "list" =>
       \A p \in 1..Len(notifications) :
          /\ Cardinality(CallsAt(p, "getObject")) <= 1
          /\ \A k \in CallsAt(p, "getObject") :
                /\ calls[k].by = "pipeline" <=> filters.subjectState # ""
                /\ calls[k].by = "action" <=> filters.subjectState = ""
                /\ notifications[p].type = filters.subjectType
                /\ filters.repository \in {"", notifications[p].repo}

C9_Witness ==
    /\ cmd = "list"
    /\ pc = "exited"
    /\ filters.subjectState # ""
    /\ 1 \in InvokedSet
    /\ \E k \in OutputAt(1) : output[k].kind = "line"
    /\ Cardinality(CallsAt(1, "getObject")) = 1

\* C10: in an unsubscribe run every deleteThreadSubscription call is made on a
\* thread that is read at that moment: the notification was listed as read and
\* no markThreadRead was issued for it, or the call right before it is a
\* successful markThreadRead for the same thread. After a failed markThreadRead
\* there is no deleteThreadSubscription call and no confirmation line for that
\* thread, and the pass is over with the mark-read error.
C10_DeleteOnlyWhenRead ==
    cmd = "unsubscribe" =>
       /\ \A k \in 1..Len(calls) :
             calls[k].op = "deleteThreadSubscription" =>
                /\ calls[k].read
                /\ \/ /\ ~notifications[calls[k].pos].unread
                      /\ CallsAt(calls[k].pos, "markThreadRead") = {}
                   \/ /\ k > 1
                      /\ calls[k - 1].op = "markThreadRead"
                      /\ calls[k - 1].pos = calls[k].pos
                      /\ calls[k - 1].ok
       /\ \A k \in 1..Len(calls) :
             (calls[k].op = "markThreadRead" /\ ~calls[k].ok) =>
                /\ CallsAt(calls[k].pos, "deleteThreadSubscription") = {}
                /\ OutputAt(calls[k].pos) = {}
                /\ err = "markread"
                /\ errPos = calls[k].pos
                /\ pc \in {"report", "main", "exited"}

C10_Witness ==
    /\ cmd = "unsubscribe"
    /\ pc = "exited"
    /\ \E k \in 1..Len(calls) :
          /\ calls[k].op = "deleteThreadSubscription"
          /\ notifications[calls[k].pos].unread
    /\ \E k \in 1..Len(calls) :
          /\ calls[k].op = "deleteThreadSubscription"
          /\ ~notifications[calls[k].pos].unread

====
